---- MODULE Spec2Model ----
(***************************************************************************)
(* Force-directed label placement (react-force-labels).                    *)
(*                                                                         *)
(* Two engines are modelled:                                               *)
(*   - the custom integrator (class ForceSimulation with applyAnchorForces,*)
(*     applyRepulsionForces, applyCollisionForces, applyBoundsConstraints),*)
(*     variables labels, config and the observation variables;             *)
(*   - the d3-force-backed ForceSimulation (labels array, nodes array,     *)
(*     simulation handle), variable d3.                                    *)
(*                                                                         *)
(* Numbers.  The source computes in IEEE doubles.  The model computes in   *)
(* fixed point: a coordinate, distance, force or strength v is held as the *)
(* integer v * Scale.  Every source expression is evaluated exactly and    *)
(* then truncated toward zero to that grid; Math.sqrt is the floor of the  *)
(* square root on that grid.  Comparisons with 0 are exact on the grid.    *)
(***************************************************************************)
EXTENDS Integers, Sequences, FiniteSets, TLC

VARIABLES
    labels,     \* ForceSimulation.labels : sequence of PositionedLabel
    config,     \* ForceSimulation.config : Required<ForceConfig>
    lastOp,     \* the call that produced this state
    lastArg,    \* its argument: the Label[] of setLabels, the partial of setConfig
    result,     \* value returned by the last step() call
    obs,        \* what the last step() call did, pass by pass (see StepRun)
    steps,      \* step() calls since the last setLabels
    everTrue,   \* some step() since the last setLabels returned true
    calls,      \* API calls made so far
    current,    \* the Label[] of the most recent setLabels call (<<>> before any)
    d3,         \* the d3-force-backed engine: labels, nodes, simulation, ticks
    ui          \* the ForceLabels component: props, React state, refs, frames

vars ==
    <<labels, config, lastOp, lastArg, result, obs, steps, everTrue, calls, current, d3,
      ui>>

-----------------------------------------------------------------------------
(* Bounds of the model *)

\* API calls explored per behaviour of Spec
MaxCalls == 4
\* step() calls explored per behaviour of SpecRun (the long default-config runs)
MaxRunCalls == 200
\* API calls explored per behaviour of SpecD3
MaxD3Calls == 3
MaxD3RunCalls == 10
\* renders, effect flushes, frames and prop changes explored per behaviour of SpecUI
MaxUiEvents == 7
\* rounding slack, in grid units, of a rescale followed by a floor square root
Tol == 2

-----------------------------------------------------------------------------
(* Fixed-point arithmetic *)

\* grid units per 1.0
Scale == 100

Abs(a) == IF a < 0 THEN -a ELSE a

Max(a, b) == IF a >= b THEN a ELSE b

\* a / b truncated toward zero (b # 0)
Div(a, b) ==
    IF (a >= 0) = (b > 0) THEN Abs(a) \div Abs(b) ELSE -(Abs(a) \div Abs(b))

\* product of two grid numbers, on the grid
Mul(a, b) == Div(a * b, Scale)

RECURSIVE SqrtSearch(_, _, _)
SqrtSearch(n, lo, hi) ==
    IF lo >= hi THEN lo
    ELSE LET mid == (lo + hi + 1) \div 2
         IN  IF mid * mid <= n THEN SqrtSearch(n, mid, hi)
             ELSE SqrtSearch(n, lo, mid - 1)

\* Math.sqrt(dx ** 2 + dy ** 2) on the grid
Hypot(dx, dy) == SqrtSearch(dx * dx + dy * dy, 0, 46340)

RECURSIVE Precision(_, _)
\* the largest power of two k (from k up) with k * k * n in range
Precision(n, k) ==
    IF k < 16384 /\ n <= 2147395600 \div (4 * k * k) THEN Precision(n, 2 * k) ELSE k

\* c * (target / Math.sqrt(dx ** 2 + dy ** 2)) for (dx, dy) # (0, 0): the
\* quotient by the distance keeps 15 significant bits of the square root, as a
\* double keeps 53, so that rescaling a short vector is as exact as a long one
ScaleTo(c, target, dx, dy) ==
    LET n == dx * dx + dy * dy
        k == Precision(n, 1)
    IN  Div(c * k * target, SqrtSearch(k * k * n, 0, 46340))

Vec(x, y) == [x |-> x, y |-> y]

Zero == Vec(0, 0)

\* Math.cos / Math.sin of (index * 2 * PI) / n, times 10000, for n <= 4
Cos10k(index, n) ==
    CASE n = 1 -> 10000
      [] n = 2 -> <<10000, -10000>>[index + 1]
      [] n = 3 -> <<10000, -5000, -5000>>[index + 1]
      [] n = 4 -> <<10000, 0, -10000, 0>>[index + 1]

Sin10k(index, n) ==
    CASE n = 1 -> 0
      [] n = 2 -> <<0, 0>>[index + 1]
      [] n = 3 -> <<0, 8660, -8660>>[index + 1]
      [] n = 4 -> <<0, 10000, 0, -10000>>[index + 1]

-----------------------------------------------------------------------------
(* Configuration *)

DefaultAnchorStrength == 10
DefaultRepulsionStrength == 5000
DefaultRepulsionRadius == 10000
DefaultCollisionPadding == 1000
DefaultMinDistance == 4000
DefaultMaxDistance == 20000
DefaultFriction == 90
DefaultIterations == 3
DefaultMaxVelocity == 500
DefaultThreshold == 10
DefaultWidth == 10000
DefaultHeight == 3000

ConfigFields ==
    {"anchorStrength", "repulsionStrength", "repulsionRadius", "enableCollision",
     "collisionPadding", "minDistance", "maxDistance", "friction", "iterations",
     "maxVelocity", "threshold"}

DefaultConfig ==
    [anchorStrength    |-> DefaultAnchorStrength,
     repulsionStrength |-> DefaultRepulsionStrength,
     repulsionRadius   |-> DefaultRepulsionRadius,
     enableCollision   |-> TRUE,
     collisionPadding  |-> DefaultCollisionPadding,
     minDistance       |-> DefaultMinDistance,
     maxDistance       |-> DefaultMaxDistance,
     friction          |-> DefaultFriction,
     iterations        |-> DefaultIterations,
     maxVelocity       |-> DefaultMaxVelocity,
     threshold         |-> DefaultThreshold]

\* a merge that resets the fields missing from partial to their defaults
MergeOverDefaults(cfg, partial) ==
    [f \in ConfigFields |-> IF f \in DOMAIN partial THEN partial[f] ELSE DefaultConfig[f]]

\* { ...this.config, ...config }: the fields of partial replace those of cfg
Merge(cfg, partial) ==
    [f \in ConfigFields |-> IF f \in DOMAIN partial THEN partial[f] ELSE cfg[f]]

\* constructor: config.f ?? default, field by field
Construct(partial) == Merge(DefaultConfig, partial)

-----------------------------------------------------------------------------
(* Custom integrator: setLabels *)

\* label.priority ?? 1
Priority(label) == IF "priority" \in DOMAIN label THEN label.priority ELSE 1

\* label.width ?? 100
Width(label) == IF "width" \in DOMAIN label THEN label.width ELSE DefaultWidth

\* label.height ?? 30
Height(label) == IF "height" \in DOMAIN label THEN label.height ELSE DefaultHeight

\* { ...label, position, velocity, force, width, height }
Positioned(label, position) ==
    [f \in DOMAIN label \cup {"position", "velocity", "force", "width", "height"} |->
        CASE f = "position" -> position
          [] f = "velocity" -> Zero
          [] f = "force"    -> Zero
          [] f = "width"    -> Width(label)
          [] f = "height"   -> Height(label)
          [] OTHER          -> label[f]]

\* the position setLabels gives the label at `index` (0-based) of n labels
InitialPosition(label, index, n, cfg) ==
    LET radius == cfg.minDistance + 20 * Scale
    IN  Vec(label.anchor.x + Div(Cos10k(index, n) * radius, 10000),
            label.anchor.y + Div(Sin10k(index, n) * radius, 10000))

\* labels.map((label, index) => ...)
SetLabelsResult(ls, cfg) ==
    [i \in 1..Len(ls) |-> Positioned(ls[i], InitialPosition(ls[i], i - 1, Len(ls), cfg))]

-----------------------------------------------------------------------------
(* Custom integrator: the force kernels.  Each takes and returns the label  *)
(* array; only the force fields change.                                     *)

\* no reset: the forces of the previous pass stay
KeepForces(ls) == ls

\* a reset that also puts back the default size
ResetForcesAndSize(ls) ==
    [i \in 1..Len(ls) |->
        [ls[i] EXCEPT !.force = Zero, !.width = DefaultWidth, !.height = DefaultHeight]]

\* label.force.x = 0; label.force.y = 0
ResetForces(ls) == [i \in 1..Len(ls) |-> [ls[i] EXCEPT !.force = Zero]]

\* force += (dx / distance) * distance * strength, skipped at distance 0
AnchorForce(label, cfg) ==
    LET dx       == label.anchor.x - label.position.x
        dy       == label.anchor.y - label.position.y
        distance == Hypot(dx, dy)
        strength == cfg.anchorStrength * Priority(label)
    IN  IF distance > 0
        THEN [label EXCEPT !.force = Vec(label.force.x + Mul(dx, strength),
                                         label.force.y + Mul(dy, strength))]
        ELSE label

ApplyAnchorForces(ls, cfg) == [i \in 1..Len(ls) |-> AnchorForce(ls[i], cfg)]

\* the (i, j) pairs with i < j, in the order of the nested loops
RECURSIVE PairsFrom(_, _, _)
PairsFrom(i, j, n) ==
    IF i >= n THEN <<>>
    ELSE IF j > n THEN PairsFrom(i + 1, i + 2, n)
    ELSE <<<<i, j>>>> \o PairsFrom(i, j + 1, n)

Pairs(n) == PairsFrom(1, 2, n)

\* a repulsion that pushes coincident labels apart along x
RepulsionOfCoincident(a, b, cfg) ==
    LET dx       == b.position.x - a.position.x
        dy       == b.position.y - a.position.y
        distance == Hypot(dx, dy)
    IN  IF distance = 0 THEN Vec(cfg.repulsionStrength, 0)
        ELSE IF distance < cfg.repulsionRadius
        THEN LET strength == Div(cfg.repulsionStrength * Scale * Scale,
                                 dx * dx + dy * dy)
             IN  Vec(Div(dx * strength, distance), Div(dy * strength, distance))
        ELSE Zero

\* the vector (fx, fy) of the pair (a, b): zero when the pair is skipped
RepulsionOfPair(a, b, cfg) ==
    LET dx       == b.position.x - a.position.x
        dy       == b.position.y - a.position.y
        distance == Hypot(dx, dy)
    IN  IF distance < cfg.repulsionRadius /\ distance > 0
        THEN LET strength == Div(cfg.repulsionStrength * Scale * Scale,
                                 dx * dx + dy * dy)
             IN  Vec(Div(dx * strength, distance), Div(dy * strength, distance))
        ELSE Zero

\* b.force -= f, the sign of a
RepulsionOnBSameSign(force, f) == Vec(force.x - f.x, force.y - f.y)

\* a.force -= f ; b.force += f
RepulsionOnA(force, f) == Vec(force.x - f.x, force.y - f.y)

RepulsionOnB(force, f) == Vec(force.x + f.x, force.y + f.y)

RepelPair(ls, pair, cfg) ==
    LET i == pair[1]
        j == pair[2]
        f == RepulsionOfPair(ls[i], ls[j], cfg)
    IN  [ls EXCEPT ![i].force = RepulsionOnA(@, f),
                   ![j].force = RepulsionOnB(@, f)]

RECURSIVE RepelPairs(_, _, _)
RepelPairs(ls, pairs, cfg) ==
    IF pairs = <<>> THEN ls
    ELSE RepelPairs(RepelPair(ls, Head(pairs), cfg), Tail(pairs), cfg)

ApplyRepulsionForces(ls, cfg) == RepelPairs(ls, Pairs(Len(ls)), cfg)

\* a collision vector along the axis of the larger overlap
CollisionOnLargerAxis(a, b, cfg) ==
    LET dx       == b.position.x - a.position.x
        dy       == b.position.y - a.position.y
        overlapX == Div(a.width + b.width, 2) + cfg.collisionPadding - Abs(dx)
        overlapY == Div(a.height + b.height, 2) + cfg.collisionPadding - Abs(dy)
    IN  IF overlapX > 0 /\ overlapY > 0
        THEN IF overlapX >= overlapY
             THEN Vec(Mul(IF dx > 0 THEN overlapX ELSE -overlapX, Scale \div 2), 0)
             ELSE Vec(0, Mul(IF dy > 0 THEN overlapY ELSE -overlapY, Scale \div 2))
        ELSE Zero

\* the collision vector (fx, fy) of the pair (a, b): zero when the padded
\* boxes do not overlap on both axes
CollisionOfPair(a, b, cfg) ==
    LET padding  == cfg.collisionPadding
        dx       == b.position.x - a.position.x
        dy       == b.position.y - a.position.y
        minDistX == Div(a.width + b.width, 2) + padding
        minDistY == Div(a.height + b.height, 2) + padding
        overlapX == minDistX - Abs(dx)
        overlapY == minDistY - Abs(dy)
        strength == Scale \div 2
    IN  IF overlapX > 0 /\ overlapY > 0
        THEN IF overlapX < overlapY
             THEN Vec(Mul(IF dx > 0 THEN overlapX ELSE -overlapX, strength), 0)
             ELSE Vec(0, Mul(IF dy > 0 THEN overlapY ELSE -overlapY, strength))
        ELSE Zero

CollidePair(ls, pair, cfg) ==
    LET i == pair[1]
        j == pair[2]
        f == CollisionOfPair(ls[i], ls[j], cfg)
    IN  [ls EXCEPT ![i].force = Vec(@.x - f.x, @.y - f.y),
                   ![j].force = Vec(@.x + f.x, @.y + f.y)]

RECURSIVE CollidePairs(_, _, _)
CollidePairs(ls, pairs, cfg) ==
    IF pairs = <<>> THEN ls
    ELSE CollidePairs(CollidePair(ls, Head(pairs), cfg), Tail(pairs), cfg)

ApplyCollisionForces(ls, cfg) == CollidePairs(ls, Pairs(Len(ls)), cfg)

-----------------------------------------------------------------------------
(* Custom integrator: integration, bounds, step *)

\* an integrator without the clamp
NoClamp(v, maxVelocity) == v

\* |v| > maxVelocity: v = (v / speed) * maxVelocity
ClampVelocity(v, maxVelocity) ==
    LET speed == Hypot(v.x, v.y)
    IN  IF speed > maxVelocity
        THEN Vec(ScaleTo(v.x, maxVelocity, v.x, v.y), ScaleTo(v.y, maxVelocity, v.x, v.y))
        ELSE v

\* velocity += force; velocity *= friction
Damped(label, cfg) ==
    LET v1 == Vec(label.velocity.x + label.force.x, label.velocity.y + label.force.y)
    IN  Vec(Mul(v1.x, cfg.friction), Mul(v1.y, cfg.friction))

\* velocity += force; velocity *= friction; clamp; position += velocity
Integrate(label, cfg) ==
    LET v3 == ClampVelocity(Damped(label, cfg), cfg.maxVelocity)
    IN  [label EXCEPT !.velocity = v3,
                      !.position = Vec(label.position.x + v3.x, label.position.y + v3.y)]

IntegrateAll(ls, cfg) == [i \in 1..Len(ls) |-> Integrate(ls[i], cfg)]

\* a bounds pass that only pulls back labels that are too far
BoundsConstraintNoPush(label, cfg) ==
    LET dx       == label.position.x - label.anchor.x
        dy       == label.position.y - label.anchor.y
        distance == Hypot(dx, dy)
    IN  IF distance > cfg.maxDistance /\ distance > 0
        THEN [label EXCEPT !.position =
                 Vec(label.anchor.x + ScaleTo(dx, cfg.maxDistance, dx, dy),
                     label.anchor.y + ScaleTo(dy, cfg.maxDistance, dx, dy))]
        ELSE label

\* a bounds pass that only pulls back, and stops the label it pulls back
BoundsConstraintStops(label, cfg) ==
    LET back == BoundsConstraintNoPush(label, cfg)
    IN  IF back # label THEN [back EXCEPT !.velocity = Zero] ELSE label

\* radial rescale onto minDistance or maxDistance, skipped at distance 0
BoundsConstraint(label, cfg) ==
    LET dx       == label.position.x - label.anchor.x
        dy       == label.position.y - label.anchor.y
        distance == Hypot(dx, dy)
    IN  IF distance < cfg.minDistance /\ distance > 0
        THEN [label EXCEPT !.position =
                 Vec(label.anchor.x + ScaleTo(dx, cfg.minDistance, dx, dy),
                     label.anchor.y + ScaleTo(dy, cfg.minDistance, dx, dy))]
        ELSE IF distance > cfg.maxDistance /\ distance > 0
        THEN [label EXCEPT !.position =
                 Vec(label.anchor.x + ScaleTo(dx, cfg.maxDistance, dx, dy),
                     label.anchor.y + ScaleTo(dy, cfg.maxDistance, dx, dy))]
        ELSE label

\* a pass that leaves the positions as the integration left them
NoBoundsConstraints(ls, cfg) == ls

ApplyBoundsConstraints(ls, cfg) == [i \in 1..Len(ls) |-> BoundsConstraint(ls[i], cfg)]

Magnitude(v) == Hypot(v.x, v.y)

RECURSIVE MaxOf(_, _)
\* the largest element of a sequence of numbers, and at least floor
MaxOf(seq, floor) ==
    IF seq = <<>> THEN floor ELSE MaxOf(Tail(seq), Max(floor, Head(seq)))

\* Math.sqrt(label.force.x ** 2 + label.force.y ** 2), label by label
ForceMags(ls) == [i \in 1..Len(ls) |-> Magnitude(ls[i].force)]

\* the speed of each label
Speeds(ls) == [i \in 1..Len(ls) |-> Magnitude(ls[i].velocity)]

\* the speed each label would have without the clamp
RawSpeeds(ls, cfg) == [i \in 1..Len(ls) |-> Magnitude(Damped(ls[i], cfg))]

\* One inner iteration of step(): the label array after each stage.
Pass(ls, cfg) ==
    LET reset      == ResetForces(ls)
        anchored   == ApplyAnchorForces(reset, cfg)
        repelled   == ApplyRepulsionForces(anchored, cfg)
        collided   == IF cfg.enableCollision
                      THEN ApplyCollisionForces(repelled, cfg)
                      ELSE repelled
        integrated == IntegrateAll(collided, cfg)
        bounded    == ApplyBoundsConstraints(integrated, cfg)
    IN  [start |-> ls, anchored |-> anchored, repelled |-> repelled,
         collided |-> collided, integrated |-> integrated, bounded |-> bounded]

\* The record of a step() call: the passes run, the largest force magnitude of
\* each pass, the largest speed a pass left and the largest speed before the
\* clamp, and the stages of each pass.
NoObs == [passes |-> 0, passMax |-> <<>>, peakSpeed |-> 0, peakRaw |-> 0, log |-> <<>>]

\* a maxForce that starts from 0 in every pass
MaxForceOfPass(maxForce, forceMags) == MaxOf(forceMags, 0)

\* maxForce = Math.max(maxForce, forceMag), over the labels of one pass;
\* maxForce is declared once, before the loop over the passes
MaxForceAfter(maxForce, forceMags) == MaxOf(forceMags, maxForce)

RECURSIVE StepLoop(_, _, _, _, _)
StepLoop(ls, cfg, iter, maxForce, o) ==
    IF iter >= cfg.iterations
    THEN [labels |-> ls, maxForce |-> maxForce, obs |-> o]
    ELSE LET p == Pass(ls, cfg)
         IN  StepLoop(p.bounded, cfg, iter + 1,
                      MaxForceAfter(maxForce, ForceMags(p.collided)),
                      [passes    |-> o.passes + 1,
                       passMax   |-> Append(o.passMax, MaxOf(ForceMags(p.collided), 0)),
                       peakSpeed |-> MaxOf(Speeds(p.integrated), o.peakSpeed),
                       peakRaw   |-> MaxOf(RawSpeeds(p.collided, cfg), o.peakRaw),
                       log       |-> Append(o.log, p)])

\* step() on a non-empty label array
StepRun(ls, cfg) == StepLoop(ls, cfg, 0, 0, NoObs)

\* return maxForce < this.config.threshold
Converged(maxForce, cfg) == maxForce < cfg.threshold

-----------------------------------------------------------------------------
(* Inputs *)

Label(id, ax, ay) == [id |-> id, anchor |-> Vec(ax, ay), content |-> id]

WithPriority(label, p) ==
    [f \in DOMAIN label \cup {"priority"} |-> IF f = "priority" THEN p ELSE label[f]]

WithSize(label, w, h) ==
    [f \in DOMAIN label \cup {"width", "height"} |->
        CASE f = "width" -> w [] f = "height" -> h [] OTHER -> label[f]]

\* the Label[] arguments of setLabels
LabelSets ==
    {<<>>,
     <<WithPriority(Label("a", 0, 0), 2)>>,
     <<Label("a", 0, 0), Label("b", Scale, 0)>>,
     <<Label("c", 0, 0), WithSize(Label("d", 100 * Scale, 0), 60 * Scale, 20 * Scale)>>,
     <<Label("e", 0, 0), Label("f", 30 * Scale, 0), Label("g", 0, 30 * Scale)>>,
     <<WithPriority(Label("h", 0, 0), 2), WithPriority(Label("k", 120 * Scale, 0), 2)>>}

\* the Label[] arguments of the long default-configuration runs
RunLabelSets ==
    {<<Label("a", 0, 0)>>,
     <<Label("a", 30 * Scale, 10 * Scale)>>,
     <<Label("a", 0, 0), Label("b", Scale, 0)>>,
     <<Label("a", 0, 0), Label("b", 0, Scale)>>}

EmptyPartial == [f \in {} |-> 0]

\* setConfig({minDistance: 200, maxDistance: 200})
RadiusPartial == [minDistance |-> 200 * Scale, maxDistance |-> 200 * Scale]

\* a spring that brings a label of priority 2 onto its anchor in one pass
StiffPartial ==
    [anchorStrength |-> Scale \div 2, friction |-> Scale, maxVelocity |-> 100 * Scale,
     iterations |-> 1]

\* the Partial<ForceConfig> arguments of setConfig
ConfigInputs ==
    {RadiusPartial,
     StiffPartial,
     [threshold |-> 520],
     [maxDistance |-> 30 * Scale],
     [enableCollision |-> FALSE]}

\* the ForceConfig arguments of the constructor
CtorInputs == {EmptyPartial}

-----------------------------------------------------------------------------
(* The d3-force-backed engine.  d3-force itself is a library: of a tick the *)
(* model keeps what the engine reads back, the decay of alpha             *)
(* (alpha += (alphaTarget - alpha) * alphaDecay with alphaTarget 0); the    *)
(* displacement of the nodes by the library's kernels is not modelled.      *)

\* alpha is held in millionths: AlphaOne is alpha = 1
AlphaOne == 10000 * Scale

\* private labels = []; private simulation = null; private nodes = []
D3Init ==
    [labels |-> <<>>, nodes |-> <<>>, simulation |-> FALSE, alpha |-> AlphaOne,
     alphaDecay |-> 0, config |-> DefaultConfig, forces |-> {}, ticked |-> {}]

\* the forces setLabels and setConfig register on the simulation, whatever
\* the configuration holds
D3Forces == {"charge", "anchorX", "anchorY", "collision", "distanceConstraint"}

\* the directions Math.random() * Math.PI * 2 may give, as (cos, sin) * 10000
RandomDirections == {<<10000, 0>>, <<0, -10000>>}

\* centerX /= labels.length || 1
Center(ls) ==
    LET n == IF Len(ls) = 0 THEN 1 ELSE Len(ls)
        RECURSIVE Sum(_, _)
        Sum(k, axis) == IF k = 0 THEN 0 ELSE ls[k].anchor[axis] + Sum(k - 1, axis)
    IN  Vec(Div(Sum(Len(ls), "x"), n), Div(Sum(Len(ls), "y"), n))

\* a placement that takes the drawn direction for every label
D3DrawnPosition(label, center, dir, cfg) ==
    LET radius == cfg.minDistance + 20 * Scale
    IN  Vec(center.x + Div(dir[1] * radius, 10000),
            center.y + Div(dir[2] * radius, 10000))

\* the position the d3 engine gives a label: radius away from the centre of
\* all anchors, along the direction of the label's anchor from that centre
\* (dir when the anchor is within 1 of the centre)
D3InitialPosition(label, center, dir, cfg) ==
    LET dx       == label.anchor.x - center.x
        dy       == label.anchor.y - center.y
        distance == Hypot(dx, dy)
        radius   == cfg.minDistance + 20 * Scale
    IN  IF distance > Scale
        THEN Vec(center.x + ScaleTo(dx, radius, dx, dy),
                 center.y + ScaleTo(dy, radius, dx, dy))
        ELSE Vec(center.x + Div(dir[1] * radius, 10000),
                 center.y + Div(dir[2] * radius, 10000))

D3PosLabels(ls, dirs, cfg) ==
    [i \in 1..Len(ls) |->
        Positioned(ls[i], D3InitialPosition(ls[i], Center(ls), dirs[i], cfg))]

\* the node pushed for a label
LabelNode(posLabel) ==
    [id |-> posLabel.id, isAnchor |-> FALSE,
     x |-> posLabel.position.x, y |-> posLabel.position.y,
     anchorX |-> posLabel.anchor.x, anchorY |-> posLabel.anchor.y,
     width |-> posLabel.width, height |-> posLabel.height]

\* the fixed node pushed for a label's anchor
AnchorNode(label) ==
    [id |-> <<"anchor", label.id>>, isAnchor |-> TRUE,
     x |-> label.anchor.x, y |-> label.anchor.y,
     anchorX |-> label.anchor.x, anchorY |-> label.anchor.y,
     width |-> 20 * Scale, height |-> 20 * Scale]

\* this.labels after setLabels: each new label is pushed onto the array
D3LabelsAfterSet(old, posLabels) == old \o posLabels

\* setLabels of the d3 engine
D3SetLabelsResult(e, ls, dirs) ==
    LET posLabels == D3PosLabels(ls, dirs, e.config)
    IN  [e EXCEPT
            !.labels = D3LabelsAfterSet(e.labels, posLabels),
            !.nodes = [i \in 1..Len(ls) |-> LabelNode(posLabels[i])]
                      \o [i \in 1..Len(ls) |-> AnchorNode(ls[i])],
            !.simulation = TRUE,
            !.alpha = AlphaOne,
            !.alphaDecay = Scale - e.config.friction,
            !.forces = D3Forces]

\* simulation.tick(), `n` times: alpha += (0 - alpha) * alphaDecay
RECURSIVE Ticks(_, _, _)
Ticks(alpha, alphaDecay, n) ==
    IF n <= 0 THEN alpha
    ELSE Ticks(alpha - Div(alpha * alphaDecay, Scale), alphaDecay, n - 1)

\* step() of the d3 engine returns true without touching anything when
\* there is no simulation or the label array is empty
D3StepSkips(e) == ~e.simulation \/ Len(e.labels) = 0

\* each tick runs every registered force
D3StepResult(e) ==
    IF D3StepSkips(e) THEN e
    ELSE [e EXCEPT !.alpha = Ticks(e.alpha, e.alphaDecay, e.config.iterations),
                   !.ticked = IF e.config.iterations > 0 THEN e.forces ELSE {}]

\* alpha < threshold
D3Converged(e) == D3StepSkips(e) \/ D3StepResult(e).alpha < 10000 * e.config.threshold

\* a setConfig that stores the configuration and leaves the simulation alone
D3SetConfigStored(e, partial) == [e EXCEPT !.config = Merge(e.config, partial)]

\* setConfig of the d3 engine
D3SetConfigResult(e, partial) ==
    LET cfg == Merge(e.config, partial)
    IN  [e EXCEPT !.config = cfg,
                  !.alphaDecay = IF e.simulation THEN Scale - cfg.friction ELSE @,
                  !.forces = IF e.simulation THEN D3Forces ELSE @]

-----------------------------------------------------------------------------
(* The ForceLabels component: its state.                                    *)
(*   mounted        the component is mounted                                *)
(*   labelsProp     the labels prop                                         *)
(*   configProp     "default": forceConfig is not passed, so the parameter  *)
(*                  default {} is a fresh object in every render;           *)
(*                  "stable": the parent passes the same object,            *)
(*                  StableForceConfig, each time                            *)
(*   dirty          a re-render is scheduled (setState or new props)        *)
(*   effects        the passive effects of the last commit have not run yet *)
(*   labelsChanged, styleChanged, configChanged                             *)
(*                  the dependency differs (Object.is) from the one the     *)
(*                  effect last ran with                                    *)
(*   stateRef       the array held by the positionedLabels state            *)
(*   run            the labels-effect runs so far; each has its own         *)
(*                  `converged` and `animate`                               *)
(*   converged      run -> the closure variable `converged` of that run     *)
(*   cleaned        the runs whose cleanup has been called                  *)
(*   pending        the animation-frame callbacks requested and not yet     *)
(*                  called or cancelled: [handle, run]                      *)
(*   rafRef         rafRef.current: a handle, 0 for null                    *)
(*   handles        handles handed out by requestAnimationFrame so far      *)
(*   inits          setLabels calls made by the component                   *)
(*   stepsOfRun     step() calls since the last setLabels                   *)
(*   stepsBy        run -> step() calls made by the `animate` of that run   *)
(*   last           what the last action did                                *)
(*   events         actions so far                                          *)

UiIdle ==
    [mounted |-> FALSE, labelsProp |-> <<>>, configProp |-> "default",
     dirty |-> FALSE, effects |-> FALSE,
     labelsChanged |-> FALSE, styleChanged |-> FALSE, configChanged |-> FALSE,
     stateRef |-> "initial", run |-> 0, converged |-> <<>>, cleaned |-> {},
     pending |-> {}, rafRef |-> 0, handles |-> 0,
     inits |-> 0, stepsOfRun |-> 0, stepsBy |-> <<>>, last |-> "none", events |-> 0]

\* the first render has been committed; every effect runs after the mount
UiMounted(ls, configProp) ==
    [UiIdle EXCEPT !.mounted = TRUE, !.labelsProp = ls, !.configProp = configProp,
                   !.effects = TRUE, !.labelsChanged = TRUE, !.styleChanged = TRUE,
                   !.configChanged = TRUE, !.last = "render"]

\* cancelAnimationFrame(handle)
Cancel(pending, handle) == {c \in pending : c.handle # handle}

\* a cleanup that cancels nothing
CleanupCancelsNothing(u) == u.pending

\* the cleanup of the labels effect: if (rafRef.current !== null) cancel it
CleanupPending(u) == IF u.rafRef # 0 THEN Cancel(u.pending, u.rafRef) ELSE u.pending

-----------------------------------------------------------------------------
(* Custom integrator: the calls *)

Init ==
    /\ labels = <<>>
    /\ \E p \in CtorInputs : config = Construct(p)
    /\ lastOp = "new"
    /\ lastArg = <<>>
    /\ result = FALSE
    /\ obs = NoObs
    /\ steps = 0
    /\ everTrue = FALSE
    /\ calls = 0
    /\ current = <<>>
    /\ d3 = D3Init
    /\ ui = UiIdle

\* setLabels(ls)
SetLabelsCall(ls) ==
    /\ labels' = SetLabelsResult(ls, config)
    /\ lastOp' = "setLabels"
    /\ lastArg' = ls
    /\ obs' = NoObs
    /\ steps' = 0
    /\ everTrue' = FALSE
    /\ calls' = calls + 1
    /\ current' = ls
    /\ UNCHANGED <<config, result, d3, ui>>

\* step()
StepCall ==
    /\ IF Len(labels) = 0
       THEN /\ result' = TRUE
            /\ obs' = NoObs
            /\ UNCHANGED labels
       ELSE LET r == StepRun(labels, config)
            IN  /\ labels' = r.labels
                /\ result' = Converged(r.maxForce, config)
                /\ obs' = r.obs
    /\ lastOp' = "step"
    /\ lastArg' = <<>>
    /\ steps' = steps + 1
    /\ everTrue' = (everTrue \/ result')
    /\ calls' = calls + 1
    /\ UNCHANGED <<config, current, d3, ui>>

\* setConfig(partial)
SetConfigCall(partial) ==
    /\ config' = Merge(config, partial)
    /\ lastOp' = "setConfig"
    /\ lastArg' = partial
    /\ obs' = NoObs
    /\ calls' = calls + 1
    /\ UNCHANGED <<labels, result, steps, everTrue, current, d3, ui>>

SetLabels == calls < MaxCalls /\ \E ls \in LabelSets : SetLabelsCall(ls)

Step == calls < MaxCalls /\ StepCall

SetConfig == calls < MaxCalls /\ \E partial \in ConfigInputs : SetConfigCall(partial)

Next == SetLabels \/ Step \/ SetConfig

Spec == Init /\ [][Next]_vars

-----------------------------------------------------------------------------
(* The long runs: setLabels once under the default configuration, then      *)
(* step() again and again, as the driver does.                              *)

RunInit ==
    /\ config = DefaultConfig
    /\ \E ls \in RunLabelSets :
          /\ labels = SetLabelsResult(ls, DefaultConfig)
          /\ lastArg = ls
    /\ lastOp = "setLabels"
    /\ result = FALSE
    /\ obs = NoObs
    /\ steps = 0
    /\ everTrue = FALSE
    /\ calls = 1
    /\ current = lastArg
    /\ d3 = D3Init
    /\ ui = UiIdle

RunStep == steps < MaxRunCalls /\ StepCall

RunNext == RunStep

SpecRun == RunInit /\ [][RunNext]_vars

-----------------------------------------------------------------------------
(* The d3-force-backed engine: the calls *)

D3SetLabels ==
    /\ calls < MaxD3Calls
    /\ \E ls \in LabelSets : \E dirs \in [1..Len(ls) -> RandomDirections] :
          /\ d3' = D3SetLabelsResult(d3, ls, dirs)
          /\ lastArg' = ls
          /\ current' = ls
    /\ lastOp' = "setLabels"
    /\ calls' = calls + 1
    /\ UNCHANGED <<labels, config, result, obs, steps, everTrue, ui>>

D3Step ==
    /\ calls < MaxD3Calls
    /\ d3' = D3StepResult(d3)
    /\ result' = D3Converged(d3)
    /\ lastOp' = "step"
    /\ lastArg' = <<>>
    /\ calls' = calls + 1
    /\ UNCHANGED <<labels, config, obs, steps, everTrue, current, ui>>

D3SetConfig ==
    /\ calls < MaxD3Calls
    /\ \E partial \in ConfigInputs :
          /\ d3' = D3SetConfigResult(d3, partial)
          /\ lastArg' = partial
    /\ lastOp' = "setConfig"
    /\ calls' = calls + 1
    /\ UNCHANGED <<labels, config, result, obs, steps, everTrue, current, ui>>

D3Next == D3SetLabels \/ D3Step \/ D3SetConfig

SpecD3 == Init /\ [][D3Next]_vars

-----------------------------------------------------------------------------
(* The long runs of the d3-force-backed engine: a constructor, setLabels of *)
(* a non-empty set, at most one setConfig, then step() again and again.     *)

\* the ForceConfig arguments of the constructor and of setConfig
D3RunConfigs ==
    {EmptyPartial,
     [friction |-> 50],
     [threshold |-> 60],
     [friction |-> 50, threshold |-> 30, iterations |-> 1],
     [friction |-> Scale]}

D3RunInit ==
    /\ labels = <<>>
    /\ config = DefaultConfig
    /\ \E p \in D3RunConfigs : \E ls \in LabelSets \ {<<>>} :
       \E dirs \in [1..Len(ls) -> RandomDirections] :
          /\ d3 = D3SetLabelsResult([D3Init EXCEPT !.config = Construct(p)], ls, dirs)
          /\ lastArg = ls
    /\ lastOp = "setLabels"
    /\ result = FALSE
    /\ obs = NoObs
    /\ steps = 0
    /\ everTrue = FALSE
    /\ calls = 1
    /\ current = lastArg
    /\ ui = UiIdle

\* setConfig(partial), before the first step()
D3RunSetConfig ==
    /\ lastOp = "setLabels"
    /\ \E partial \in D3RunConfigs :
          /\ d3' = D3SetConfigResult(d3, partial)
          /\ lastArg' = partial
    /\ lastOp' = "setConfig"
    /\ calls' = calls + 1
    /\ UNCHANGED <<labels, config, result, obs, steps, everTrue, current, ui>>

\* step()
D3RunStep ==
    /\ steps < MaxD3RunCalls
    /\ d3' = D3StepResult(d3)
    /\ result' = D3Converged(d3)
    /\ lastOp' = "step"
    /\ lastArg' = <<>>
    /\ steps' = steps + 1
    /\ everTrue' = (everTrue \/ result')
    /\ calls' = calls + 1
    /\ UNCHANGED <<labels, config, obs, current, ui>>

D3RunNext == D3RunSetConfig \/ D3RunStep

\* the driver keeps calling step()
SpecD3Run == D3RunInit /\ [][D3RunNext]_vars /\ WF_vars(D3RunStep)

-----------------------------------------------------------------------------
(* The ForceLabels component driving the d3-force-backed engine: renders,   *)
(* passive effects, animation frames, new props, unmount.                   *)

\* the labels props the parent passes (sizes given, so no estimate is made)
UiLabelProps ==
    {<<>>,
     <<WithSize(Label("a", 0, 0), 80 * Scale, 30 * Scale)>>,
     <<WithSize(Label("c", 0, 0), 80 * Scale, 30 * Scale),
       WithSize(Label("d", 100 * Scale, 0), 60 * Scale, 20 * Scale)>>}

UiInit ==
    /\ labels = <<>>
    /\ config = DefaultConfig
    /\ lastOp = "new"
    /\ lastArg = <<>>
    /\ result = FALSE
    /\ obs = NoObs
    /\ steps = 0
    /\ everTrue = FALSE
    /\ calls = 0
    /\ current = <<>>
    /\ d3 = D3Init
    /\ \E ls \in UiLabelProps : \E cp \in {"default", "stable"} : ui = UiMounted(ls, cp)

UiFrameVars == <<labels, config, lastOp, lastArg, result, obs, steps, everTrue, calls, current>>

\* the component function runs again: mergedStyle = { ...defaultStyle, ...style }
\* is a new object, and so is forceConfig when the prop is not passed
UiRender ==
    /\ ui.events < MaxUiEvents
    /\ ui.mounted /\ ui.dirty /\ ~ui.effects
    /\ ui' = [ui EXCEPT !.dirty = FALSE, !.effects = TRUE, !.styleChanged = TRUE,
                        !.configChanged = (@ \/ ui.configProp = "default"),
                        !.last = "render", !.events = @ + 1]
    /\ UNCHANGED <<d3, UiFrameVars>>

\* the forceConfig object a parent keeps and passes in every render
StableForceConfig == [threshold |-> 60]

\* the forceConfig the component function receives: the prop, or {}
ForceConfigProp(u) == IF u.configProp = "stable" THEN StableForceConfig ELSE EmptyPartial

\* useEffect(..., [forceConfig]): new ForceSimulation(forceConfig) the first
\* time, setConfig(forceConfig) afterwards
ConfigEffect(u, e) ==
    IF ~u.configChanged THEN e
    ELSE IF u.run > 0 THEN D3SetConfigResult(e, ForceConfigProp(u))
    ELSE [D3Init EXCEPT !.config = Construct(ForceConfigProp(u))]

\* useEffect(..., [labels, mergedStyle]) when a dependency changed: the
\* cleanup of the previous run, then setLabels, setPositionedLabels(getLabels())
\* and requestAnimationFrame(animate)
LabelsEffect(u) ==
    LET h == u.handles + 1
    IN  [u EXCEPT !.cleaned = IF u.run > 0 THEN @ \cup {u.run} ELSE @,
                  !.run = @ + 1,
                  !.converged = Append(@, FALSE),
                  !.pending = (IF u.run > 0 THEN CleanupPending(u) ELSE @)
                              \cup {[handle |-> h, run |-> u.run + 1]},
                  !.rafRef = h,
                  !.handles = h,
                  !.inits = @ + 1,
                  !.stepsOfRun = 0,
                  !.stepsBy = Append(@, 0),
                  !.stateRef = "engine",
                  !.dirty = (@ \/ u.stateRef # "engine"),
                  !.last = "setLabels"]

\* the passive effects of a commit, in the order of the component
UiEffects ==
    /\ ui.events < MaxUiEvents
    /\ ui.mounted /\ ui.effects
    /\ LET e == ConfigEffect(ui, d3)
           u == [ui EXCEPT !.effects = FALSE, !.labelsChanged = FALSE,
                           !.styleChanged = FALSE, !.configChanged = FALSE,
                           !.last = "effects", !.events = @ + 1]
       IN  IF ui.labelsChanged \/ ui.styleChanged
           THEN /\ \E dirs \in [1..Len(ui.labelsProp) -> RandomDirections] :
                      d3' = D3SetLabelsResult(e, ui.labelsProp, dirs)
                /\ ui' = LabelsEffect(u)
           ELSE /\ d3' = e
                /\ ui' = u
    /\ UNCHANGED UiFrameVars

\* an animate() that requests the next frame whatever step() returned
AnimateAlwaysRequests(u, c, e) ==
    LET rest == u.pending \ {c}
        h    == u.handles + 1
    IN  IF u.converged[c.run]
        THEN [u EXCEPT !.pending = rest, !.last = "frame"]
        ELSE [u EXCEPT !.pending = rest \cup {[handle |-> h, run |-> c.run]},
                       !.rafRef = h,
                       !.handles = h,
                       !.converged[c.run] = D3Converged(e),
                       !.stateRef = "copy",
                       !.dirty = u.mounted,
                       !.stepsOfRun = @ + 1,
                       !.stepsBy[c.run] = @ + 1,
                       !.last = "step"]

\* animate(), called for the pending request c
Animate(u, c, e) ==
    LET rest == u.pending \ {c}
        conv == D3Converged(e)
        h    == u.handles + 1
    IN  IF u.converged[c.run]
        THEN [u EXCEPT !.pending = rest, !.last = "frame"]
        ELSE [u EXCEPT !.pending = IF conv THEN rest
                                   ELSE rest \cup {[handle |-> h, run |-> c.run]},
                       !.rafRef = IF conv THEN @ ELSE h,
                       !.handles = IF conv THEN @ ELSE h,
                       !.converged[c.run] = conv,
                       !.stateRef = "copy",
                       !.dirty = u.mounted,
                       !.stepsOfRun = @ + 1,
                       !.stepsBy[c.run] = @ + 1,
                       !.last = "step"]

\* the browser calls a pending animation-frame callback
UiFrame ==
    /\ ui.events < MaxUiEvents
    /\ \E c \in ui.pending :
          /\ ui' = [Animate(ui, c, d3) EXCEPT !.events = @ + 1]
          /\ d3' = IF ui.converged[c.run] THEN d3 ELSE D3StepResult(d3)
    /\ UNCHANGED UiFrameVars

\* the parent renders again with the same labels
UiParentRender ==
    /\ ui.events < MaxUiEvents
    /\ ui.mounted /\ ~ui.dirty
    /\ ui' = [ui EXCEPT !.dirty = TRUE, !.last = "props", !.events = @ + 1]
    /\ UNCHANGED <<d3, UiFrameVars>>

\* the parent passes another label set
UiNewLabels ==
    /\ ui.events < MaxUiEvents
    /\ ui.mounted
    /\ \E ls \in UiLabelProps \ {ui.labelsProp} :
          ui' = [ui EXCEPT !.labelsProp = ls, !.labelsChanged = TRUE, !.dirty = TRUE,
                           !.last = "labels", !.events = @ + 1]
    /\ UNCHANGED <<d3, UiFrameVars>>

\* the component unmounts: the cleanup of the last labels-effect run
UiUnmount ==
    /\ ui.events < MaxUiEvents
    /\ ui.mounted
    /\ ui' = [ui EXCEPT !.mounted = FALSE, !.dirty = FALSE, !.effects = FALSE,
                        !.pending = IF ui.run > 0 THEN CleanupPending(ui) ELSE @,
                        !.cleaned = IF ui.run > 0 THEN @ \cup {ui.run} ELSE @,
                        !.last = "unmount", !.events = @ + 1]
    /\ UNCHANGED <<d3, UiFrameVars>>

UiNext == UiRender \/ UiEffects \/ UiFrame \/ UiParentRender \/ UiNewLabels \/ UiUnmount

SpecUI == UiInit /\ [][UiNext]_vars

-----------------------------------------------------------------------------
(* Properties *)

\* distance(position, anchor)
AnchorDistance(label) ==
    Hypot(label.position.x - label.anchor.x, label.position.y - label.anchor.y)

OnAnchor(label) == label.position = label.anchor

\* minDistance <= distance(position, anchor) <= maxDistance, up to rounding
WithinBounds(label, cfg) ==
    /\ AnchorDistance(label) >= cfg.minDistance - Tol
    /\ AnchorDistance(label) <= cfg.maxDistance + Tol

-----------------------------------------------------------------------------
\* distance between the positions of two labels
LabelDistance(a, b) == Hypot(b.position.x - a.position.x, b.position.y - a.position.y)

\* C2, as stated: a single label under the default configuration has seen
\* step() return true once 200 calls have been made.
C2_SingleLabelConverges ==
    (Len(labels) = 1 /\ config = DefaultConfig /\ steps >= 200) => everTrue

\* C3, as stated: two labels whose anchors are 1 apart, default configuration:
\* after 100 step() calls the label positions are at least the sum of the
\* half-widths plus collisionPadding apart.
C3_NoOverlapAfter100 ==
    (Len(labels) = 2 /\ config = DefaultConfig /\ steps = 100) =>
        LabelDistance(labels[1], labels[2]) >=
            Div(labels[1].width, 2) + Div(labels[2].width, 2) + config.collisionPadding

-----------------------------------------------------------------------------
\* C4, as stated: step() runs config.iterations passes and returns true iff
\* the largest force magnitude of the final pass alone is below threshold.
C4_FinalPassDecides ==
    (lastOp = "step" /\ Len(labels) > 0 /\ config.iterations > 0) =>
        /\ obs.passes = config.iterations
        /\ result = (obs.passMax[obs.passes] < config.threshold)

\* C4, amended: step() runs config.iterations passes and returns true iff the
\* largest force magnitude over all the passes of the call is below threshold.
C4_AllPassesDecide ==
    (lastOp = "step" /\ Len(labels) > 0 /\ config.iterations > 0) =>
        /\ obs.passes = config.iterations
        /\ result = (\A k \in 1..obs.passes : obs.passMax[k] < config.threshold)

\* C4 witness: a step() of several passes whose final pass is below threshold
\* while an earlier one is not, and which returns false.
C4_Witness ==
    /\ lastOp = "step"
    /\ obs.passes > 1
    /\ obs.passMax[obs.passes] < config.threshold
    /\ obs.passMax[1] >= config.threshold
    /\ result = FALSE

-----------------------------------------------------------------------------
-----------------------------------------------------------------------------
\* C8: setConfig(partial) replaces exactly the fields of partial, keeps the
\* others, leaves the labels as they are; the next step() runs with the new
\* values (it runs the new number of passes and clamps to the new maxVelocity).
C8_SetConfigMerges ==
    [][/\ lastOp' = "setConfig" =>
            /\ \A f \in ConfigFields :
                  config'[f] = IF f \in DOMAIN lastArg' THEN lastArg'[f] ELSE config[f]
            /\ labels' = labels
       /\ (lastOp' = "step" /\ Len(labels) > 0) =>
            /\ obs'.passes = config.iterations
            /\ obs'.peakSpeed <= config.maxVelocity]_vars

\* C8 witness: a setConfig on moving labels that kept a field set by an earlier
\* setConfig.
C8_Witness ==
    /\ lastOp = "setConfig"
    /\ \E f \in ConfigFields \ DOMAIN lastArg : config[f] # DefaultConfig[f]
    /\ \E i \in 1..Len(labels) : labels[i].velocity # Zero

-----------------------------------------------------------------------------
\* C9, as stated: single label, setConfig({minDistance: 200, maxDistance: 200}),
\* then step(): the label is at distance 200 from its anchor.
C9_RadiusAfterStep ==
    [][(/\ lastOp = "setConfig"
        /\ lastArg = RadiusPartial
        /\ Len(labels) = 1
        /\ lastOp' = "step") =>
            Abs(AnchorDistance(labels'[1]) - 200 * Scale) <= Tol]_vars

\* C9, amended: ... the label is at distance 200 from its anchor (up to
\* rounding), unless the step's last pass put it exactly on its anchor.
C9_RadiusUnlessOnAnchor ==
    [][(/\ lastOp = "setConfig"
        /\ lastArg = RadiusPartial
        /\ Len(labels) = 1
        /\ lastOp' = "step") =>
            \/ OnAnchor(labels'[1])
            \/ Abs(AnchorDistance(labels'[1]) - 200 * Scale) <= Tol]_vars

\* C9 witness: a step() that followed setConfig({minDistance: 200,
\* maxDistance: 200}) on a single label and moved it out to distance 200.
C9_Witness ==
    /\ lastOp = "step"
    /\ steps > 1
    /\ Len(labels) = 1
    /\ config.minDistance = 200 * Scale
    /\ config.maxDistance = 200 * Scale
    /\ AnchorDistance(obs.log[1].start[1]) < 100 * Scale
    /\ AnchorDistance(labels[1]) = 200 * Scale

-----------------------------------------------------------------------------
\* the repulsion force added to label i in pass k of the last step()
RepulsionAdded(k, i) ==
    Vec(obs.log[k].repelled[i].force.x - obs.log[k].anchored[i].force.x,
        obs.log[k].repelled[i].force.y - obs.log[k].anchored[i].force.y)

RECURSIVE SumRepulsion(_, _, _)
SumRepulsion(k, i, axis) ==
    IF i = 0 THEN 0 ELSE RepulsionAdded(k, i)[axis] + SumRepulsion(k, i - 1, axis)

\* C10: in every pass, what repulsion adds to one label of a pair is the
\* negation of what it adds to the other, so the repulsion added over all
\* labels sums to zero.
C10_RepulsionCancels ==
    lastOp = "step" =>
        \A k \in 1..obs.passes :
            LET ls == obs.log[k].start
            IN  /\ SumRepulsion(k, Len(ls), "x") = 0
                /\ SumRepulsion(k, Len(ls), "y") = 0
                /\ \A i, j \in 1..Len(ls) : i < j =>
                      LET f == RepulsionOfPair(ls[i], ls[j], config)
                          a == RepulsionOnA(Zero, f)
                          b == RepulsionOnB(Zero, f)
                      IN  a.x = -b.x /\ a.y = -b.y
                /\ Len(ls) = 2 => /\ RepulsionAdded(k, 1).x = -RepulsionAdded(k, 2).x
                                  /\ RepulsionAdded(k, 1).y = -RepulsionAdded(k, 2).y

\* C10 witness: a pass in which repulsion added a non-zero force to a label.
C10_Witness ==
    /\ lastOp = "step"
    /\ \E k \in 1..obs.passes : \E i \in 1..Len(labels) : RepulsionAdded(k, i) # Zero

-----------------------------------------------------------------------------
\* C5, as stated, on the d3 engine: when the most recent setLabels call passed
\* an empty sequence, or none was made, step() returns true and changes
\* nothing in the engine.
C5_EmptyStepIsNoOp ==
    [][(current = <<>> /\ lastOp' = "step") => (result' = TRUE /\ d3' = d3)]_vars

\* C6, as stated, on the d3 engine: after setLabels(L) the engine holds one
\* positioned label per element of L, in the order of L, at rest, and nothing
\* from an earlier call.
C6_SetLabelsReplaces ==
    lastOp = "setLabels" =>
        /\ Len(d3.labels) = Len(lastArg)
        /\ \A i \in 1..Len(d3.labels) :
              /\ i <= Len(lastArg) => d3.labels[i].id = lastArg[i].id
              /\ d3.labels[i].velocity = Zero
              /\ d3.labels[i].force = Zero

-----------------------------------------------------------------------------
\* the force that attraction, label repulsion and collision give label i
\* from the state at the start of pass k
KernelForce(k, i) ==
    LET reset    == ResetForces(obs.log[k].start)
        anchored == ApplyAnchorForces(reset, config)
        repelled == ApplyRepulsionForces(anchored, config)
    IN  IF config.enableCollision
        THEN ApplyCollisionForces(repelled, config)[i].force
        ELSE repelled[i].force

\* the inverse-square push of the anchor of `other` on `label`: strength
\* repulsionStrength * 2 within repulsionRadius * 0.5, directed away from
\* that anchor
AnchorPush(label, other, cfg) ==
    LET dx       == label.position.x - other.anchor.x
        dy       == label.position.y - other.anchor.y
        distance == Hypot(dx, dy)
    IN  IF distance < Div(cfg.repulsionRadius, 2) /\ distance > 0
        THEN LET strength == Div(2 * cfg.repulsionStrength * Scale * Scale,
                                 dx * dx + dy * dy)
             IN  Vec(Div(dx * strength, distance), Div(dy * strength, distance))
        ELSE Zero

RECURSIVE AnchorPushes(_, _, _, _, _)
\* the sum over the other labels j <= n of AnchorPush, on one axis
AnchorPushes(ls, i, n, cfg, axis) ==
    IF n = 0 THEN 0
    ELSE (IF n = i THEN 0 ELSE AnchorPush(ls[i], ls[n], cfg)[axis])
         + AnchorPushes(ls, i, n - 1, cfg, axis)

\* C11, as stated: in every pass the force of each label holds, next to
\* attraction, label repulsion and collision, the push of every other label's
\* anchor within repulsionRadius * 0.5 at strength repulsionStrength * 2.
C11_AnchorRepulsionApplied ==
    lastOp = "step" =>
        \A k \in 1..obs.passes : \A i \in 1..Len(labels) :
            LET ls == obs.log[k].start
                n  == Len(ls)
            IN  /\ obs.log[k].bounded[i].force.x
                      = KernelForce(k, i).x + AnchorPushes(ls, i, n, config, "x")
                /\ obs.log[k].bounded[i].force.y
                      = KernelForce(k, i).y + AnchorPushes(ls, i, n, config, "y")

-----------------------------------------------------------------------------
\* C12, as stated, on the d3 engine: a step() made while enableCollision is
\* false runs no collision force.
C12_NoCollisionWhenDisabled ==
    [][(lastOp' = "step" /\ ~D3StepSkips(d3) /\ ~d3.config.enableCollision) =>
            "collision" \notin d3'.ticked]_vars

-----------------------------------------------------------------------------
\* C13, as stated, on the d3 engine: each label that setLabels has just
\* positioned lies minDistance + 20 from its own anchor (up to rounding), at
\* rest.
C13_InitialDistance ==
    lastOp = "setLabels" =>
        \A i \in 1..Len(d3.labels) :
            i > Len(d3.labels) - Len(lastArg) =>
                /\ Abs(AnchorDistance(d3.labels[i])
                       - (d3.config.minDistance + 20 * Scale)) <= Tol
                /\ d3.labels[i].velocity = Zero
                /\ d3.labels[i].force = Zero

-----------------------------------------------------------------------------
\* what a positioned label holds besides position, velocity and force
Identity(label) ==
    [f \in DOMAIN label \ {"position", "velocity", "force"} |-> label[f]]

\* C14: step() and setConfig() keep the number and order of the labels and
\* each label's id, anchor, content, priority, width and height.
C14_LabelSetStable ==
    [][lastOp' \in {"step", "setConfig"} =>
            /\ Len(labels') = Len(labels)
            /\ \A i \in 1..Len(labels) : Identity(labels'[i]) = Identity(labels[i])]_vars

\* C14 witness: a step() that moved a label carrying its own width.
C14_Witness ==
    /\ lastOp = "step"
    /\ obs.passes > 0
    /\ \E i \in 1..Len(labels) :
          /\ labels[i].width # DefaultWidth
          /\ labels[i].position # obs.log[1].start[i].position
          /\ Identity(labels[i]) = Identity(obs.log[1].start[i])

-----------------------------------------------------------------------------
\* how far label i moved during the last step() call
Moved(i) ==
    Hypot(labels[i].position.x - obs.log[1].start[i].position.x,
          labels[i].position.y - obs.log[1].start[i].position.y)

\* C15, as stated: during one step() call no label's position moves by more
\* than maxVelocity.
C15_MovePerFrameWithinMax ==
    (lastOp = "step" /\ obs.passes > 0) =>
        \A i \in 1..Len(labels) : Moved(i) <= config.maxVelocity + Tol

-----------------------------------------------------------------------------
\* C16, as stated: the component calls setLabels only when the label set has
\* changed since the labels effect last ran (the mount counts as a change).
C16_SetLabelsOncePerChange ==
    [][ui'.inits = ui.inits + 1 => ui.labelsChanged]_vars

-----------------------------------------------------------------------------
\* how far the anchor of ls[i] is from the centroid of the anchors of ls
CentroidDistance(ls, i) ==
    Hypot(ls[i].anchor.x - Center(ls).x, ls[i].anchor.y - Center(ls).y)

\* the engine a second instance in the same state holds after the same
\* setLabels(ls) call, for each sequence of directions Math.random may give it
OtherInstances(e, ls) ==
    {D3SetLabelsResult(e, ls, dirs) : dirs \in [1..Len(ls) -> RandomDirections]}

-----------------------------------------------------------------------------
\* the labels with zero force
AtRest(ls) == [i \in 1..Len(ls) |-> [ls[i] EXCEPT !.force = Zero]]

\* what the kernels of one pass accumulate on labels that carry no force
Accumulated(ls, cfg) ==
    LET repelled == ApplyRepulsionForces(ApplyAnchorForces(AtRest(ls), cfg), cfg)
    IN  IF cfg.enableCollision THEN ApplyCollisionForces(repelled, cfg) ELSE repelled

\* C18: the force a pass leaves on a label is what the kernels accumulate in
\* that pass from zero, so after step() the force holds the contributions of
\* the last pass only.
C18_ForceOfLastPassOnly ==
    (lastOp = "step" /\ obs.passes > 0) =>
        /\ \A k \in 1..obs.passes : \A i \in 1..Len(labels) :
              obs.log[k].bounded[i].force
                  = Accumulated(obs.log[k].start, config)[i].force
        /\ \A i \in 1..Len(labels) :
              labels[i].force = Accumulated(obs.log[obs.passes].start, config)[i].force

\* C18 witness: a pass that started with a non-zero force on a label, left by
\* the pass or the step() before it, and ended with another force on it.
C18_Witness ==
    /\ lastOp = "step"
    /\ steps > 1
    /\ \E i \in 1..Len(labels) :
          /\ obs.log[1].start[i].force # Zero
          /\ obs.log[obs.passes].start[i].force # Zero
          /\ labels[i].force # Zero
          /\ labels[i].force # obs.log[obs.passes].start[i].force

-----------------------------------------------------------------------------
\* the overlap of the padded boxes of a and b on one axis
Overlap(a, b, cfg, axis) ==
    LET size == IF axis = "x" THEN a.width + b.width ELSE a.height + b.height
    IN  Div(size, 2) + cfg.collisionPadding - Abs(b.position[axis] - a.position[axis])

Overlapping(a, b, cfg) == Overlap(a, b, cfg, "x") > 0 /\ Overlap(a, b, cfg, "y") > 0

\* the axis of the smaller overlap, the vertical one when they are equal
PushAxis(a, b, cfg) ==
    IF Overlap(a, b, cfg, "x") < Overlap(a, b, cfg, "y") THEN "x" ELSE "y"

OtherAxis(axis) == IF axis = "x" THEN "y" ELSE "x"

\* C19: in every pass with collision enabled, the collision kernel gives each
\* overlapping pair opposite forces of magnitude overlap * 0.5 on the axis of
\* the smaller overlap (vertical when equal) and nothing on the other axis,
\* pushing each label away from the other; a pair that does not overlap on
\* both axes gets nothing.
C19_CollisionOnSmallerAxis ==
    (lastOp = "step" /\ config.enableCollision) =>
        \A k \in 1..obs.passes :
            LET ls == obs.log[k].start
            IN  \A i, j \in 1..Len(ls) : i < j =>
                  LET a    == ls[i]
                      b    == ls[j]
                      r    == CollidePair(AtRest(ls), <<i, j>>, config)
                      fa   == r[i].force
                      fb   == r[j].force
                      axis == PushAxis(a, b, config)
                      d    == b.position[axis] - a.position[axis]
                      half == Mul(Overlap(a, b, config, axis), Scale \div 2)
                  IN  /\ fa.x = -fb.x /\ fa.y = -fb.y
                      /\ ~Overlapping(a, b, config) => fb = Zero
                      /\ Overlapping(a, b, config) =>
                            /\ fb[OtherAxis(axis)] = 0
                            /\ Abs(fb[axis]) = half
                            /\ d > 0 => fb[axis] >= 0
                            /\ d < 0 => fb[axis] <= 0
                      /\ Len(ls) = 2 =>
                            /\ obs.log[k].collided[i].force.x
                                  - obs.log[k].repelled[i].force.x = fa.x
                            /\ obs.log[k].collided[i].force.y
                                  - obs.log[k].repelled[i].force.y = fa.y
                            /\ obs.log[k].collided[j].force.x
                                  - obs.log[k].repelled[j].force.x = fb.x
                            /\ obs.log[k].collided[j].force.y
                                  - obs.log[k].repelled[j].force.y = fb.y

\* C19 witness: a pass in which two overlapping labels whose centres coincided
\* on the axis of the smaller overlap were given opposite non-zero forces on
\* that axis.
C19_Witness ==
    /\ lastOp = "step"
    /\ config.enableCollision
    /\ Len(labels) = 2
    /\ \E k \in 1..obs.passes :
          LET a    == obs.log[k].start[1]
              b    == obs.log[k].start[2]
              axis == PushAxis(a, b, config)
          IN  /\ Overlapping(a, b, config)
              /\ a.position[axis] = b.position[axis]
              /\ obs.log[k].collided[1].force[axis] - obs.log[k].repelled[1].force[axis] > 0
              /\ obs.log[k].collided[2].force[axis] - obs.log[k].repelled[2].force[axis] < 0

-----------------------------------------------------------------------------
\* C20: in every pass, two labels at the same position add no repulsion to
\* each other, a label on its own anchor receives no anchor force, and the
\* bounds pass leaves a label on its own anchor where it is.
C20_ZeroDistanceSkipped ==
    lastOp = "step" =>
        \A k \in 1..obs.passes :
            LET p == obs.log[k]
            IN  /\ \A i \in 1..Len(p.start) :
                      /\ OnAnchor(p.start[i]) => p.anchored[i].force = Zero
                      /\ OnAnchor(p.integrated[i]) => p.bounded[i] = p.integrated[i]
                /\ \A i, j \in 1..Len(p.start) :
                      (i < j /\ p.start[i].position = p.start[j].position) =>
                          /\ RepulsionOfPair(p.start[i], p.start[j], config) = Zero
                          /\ Len(p.start) = 2 =>
                                /\ p.repelled[i].force = p.anchored[i].force
                                /\ p.repelled[j].force = p.anchored[j].force

\* C20 witness: a pass that began with two labels at the same position and
\* whose integration put a label exactly on its anchor, inside minDistance.
C20_Witness ==
    /\ lastOp = "step"
    /\ config.minDistance > 0
    /\ \E k \in 1..obs.passes :
          /\ Len(obs.log[k].start) = 2
          /\ obs.log[k].start[1].position = obs.log[k].start[2].position
          /\ OnAnchor(obs.log[k].integrated[1])
          /\ OnAnchor(obs.log[k].bounded[1])

\* a step() whose pass began with a label exactly on its anchor
C20_WitnessOnAnchorAtStart ==
    /\ lastOp = "step"
    /\ \E k \in 1..obs.passes : \E i \in 1..Len(labels) :
          /\ OnAnchor(obs.log[k].start[i])
          /\ obs.log[k].anchored[i].force = Zero

\* the action is a call of a pending animation-frame callback
FrameCalled == ui'.events # ui.events /\ ui'.last \in {"step", "frame"}

\* C21: within one run of the labels effect, every animation frame calls
\* step() exactly once as long as step() has not returned true, taking the
\* value step() returned and requesting the next frame when it was false;
\* once step() has returned true for a run, no frame of that run is pending
\* and the run makes no further step() call.
C21_StepPerFrameUntilTrue ==
    [][/\ \A r \in 1..ui.run :
              ui.converged[r] =>
                  /\ ui'.stepsBy[r] = ui.stepsBy[r]
                  /\ \A c \in ui.pending \cup ui'.pending : c.run # r
       /\ FrameCalled =>
              \E c \in ui.pending :
                  /\ ~ui.converged[c.run]
                  /\ ui'.last = "step"
                  /\ ui'.stepsBy = [ui.stepsBy EXCEPT ![c.run] = @ + 1]
                  /\ d3' = D3StepResult(d3)
                  /\ ui'.converged[c.run] = D3Converged(d3)
                  /\ D3Converged(d3) => ui'.pending = ui.pending \ {c}
                  /\ ~D3Converged(d3) =>
                         \E n \in ui'.pending \ ui.pending :
                             /\ n.run = c.run
                             /\ ui'.pending = (ui.pending \ {c}) \cup {n}]_vars

\* C21 witness: a run of a non-empty label set whose second step() returned
\* true, after which the component rendered again with no frame pending.
C21_Witness ==
    /\ ui.last = "render"
    /\ ui.pending = {}
    /\ Len(d3.labels) > 0
    /\ ui.run > 0
    /\ ui.converged[ui.run]
    /\ ui.stepsBy[ui.run] = 2

\* the bounds pass of pass k rescaled label i
Rescaled(k, i) == obs.log[k].bounded[i].position # obs.log[k].integrated[i].position

\* C22: in every pass of a step() the bounds pass leaves every field of a
\* label but its position as the integration left it, and leaves the whole
\* label, position included, as it was when the label's distance from its
\* anchor is already within [minDistance, maxDistance].
C22_BoundsPassMovesOnly ==
    lastOp = "step" =>
        \A k \in 1..obs.passes : \A i \in 1..Len(labels) :
            LET before == obs.log[k].integrated[i]
                after  == obs.log[k].bounded[i]
            IN  /\ after = [before EXCEPT !.position = after.position]
                /\ (/\ AnchorDistance(before) >= config.minDistance
                    /\ AnchorDistance(before) <= config.maxDistance) => after = before

\* C22 witness: a step() with a pass whose bounds pass rescaled a moving
\* label that carried a force, and a pass whose bounds pass met a label
\* within [minDistance, maxDistance].
C22_Witness ==
    /\ lastOp = "step"
    /\ \E k \in 1..obs.passes : \E i \in 1..Len(labels) :
          /\ Rescaled(k, i)
          /\ obs.log[k].integrated[i].velocity # Zero
          /\ obs.log[k].integrated[i].force # Zero
    /\ \E k \in 1..obs.passes : \E i \in 1..Len(labels) :
          /\ ~Rescaled(k, i)
          /\ AnchorDistance(obs.log[k].integrated[i]) >= config.minDistance
          /\ AnchorDistance(obs.log[k].integrated[i]) <= config.maxDistance

\* 0 < friction < 1, threshold > 0, iterations >= 1
DecayingConfig(cfg) ==
    /\ 0 < cfg.friction /\ cfg.friction < Scale
    /\ cfg.threshold > 0
    /\ cfg.iterations >= 1

RECURSIVE CallsFrom(_, _, _, _, _)
\* the first step() call that finds alpha below threshold when alpha starts
\* at `alpha` and loses the share 1 - friction in each of `iterations` ticks
CallsFrom(alpha, friction, threshold, iterations, n) ==
    LET next == Ticks(alpha, Scale - friction, iterations)
    IN  IF next < 10000 * threshold \/ n >= MaxD3RunCalls + 1 THEN n
        ELSE CallsFrom(next, friction, threshold, iterations, n + 1)

\* the calls needed from alpha = 1: a function of friction, threshold and
\* iterations alone
CallsNeeded(cfg) == CallsFrom(AlphaOne, cfg.friction, cfg.threshold, cfg.iterations, 1)

\* C23: in the d3-force-backed engine with 0 < friction < 1, threshold > 0
\* and iterations >= 1, the n-th step() call after setLabels of a non-empty
\* set returns true exactly when n has reached a number fixed by friction,
\* threshold and iterations, whatever the labels, their positions and their
\* forces are; and repeated step() calls do reach a call that returns true.
C23_ConvergesByConfigAlone ==
    /\ []((steps > 0 /\ DecayingConfig(d3.config)) =>
              (result <=> steps >= CallsNeeded(d3.config)))
    /\ ((steps > 0 /\ DecayingConfig(d3.config)) ~> result)

\* C23 witness: under the default friction 0.9, threshold 0.1 and 3
\* iterations the eighth step() on two labels returns true, eight being the
\* number of calls the configuration fixes.
C23_Witness ==
    /\ lastOp = "step"
    /\ Len(d3.labels) = 2
    /\ d3.config.friction = DefaultFriction
    /\ d3.config.threshold = DefaultThreshold
    /\ d3.config.iterations = DefaultIterations
    /\ d3.alphaDecay = Scale - DefaultFriction
    /\ steps = 8
    /\ result
    /\ CallsNeeded(d3.config) = 8

\* C24: at most one animation-frame callback is pending in every state, and
\* once the cleanup of a run of the labels effect has been called (before the
\* effect runs again, or at unmount) the animate of that run makes no
\* further step() call and has no frame pending.
C24_OnePendingNoneAfterCleanup ==
    /\ [](Cardinality(ui.pending) <= 1)
    /\ [](\A c \in ui.pending : c.run \notin ui.cleaned)
    /\ [][\A r \in ui.cleaned : ui'.stepsBy[r] = ui.stepsBy[r]]_vars

\* C24 witness: a run that had made a step() call and had not seen true was
\* cleaned up while its next frame was pending, and the run that followed
\* has made a step() call of its own, with its next frame the only one
\* pending.
C24_Witness ==
    /\ ui.last = "step"
    /\ ui.run = 2
    /\ ui.cleaned = {1}
    /\ ~ui.converged[1]
    /\ ui.stepsBy[1] >= 1
    /\ ui.stepsBy[2] >= 1
    /\ Cardinality(ui.pending) = 1

\* a run cleaned up by the unmount while its next frame was pending
C24_WitnessUnmount ==
    /\ ~ui.mounted
    /\ ui.run \in ui.cleaned
    /\ ~ui.converged[ui.run]
    /\ ui.stepsBy[ui.run] >= 1
    /\ ui.pending = {}

====
